---- MODULE Spec2Model ----
(***************************************************************************)
(* A model of matrix-canonical-json: the canonical entry points of         *)
(* src/src/lib.rs (CanonicalJson, MapKeySorted), the streaming Serializer  *)
(* and Compound of src/src/serializer.rs and the MapKeySerializer of       *)
(* src/src/map_key.rs.                                                     *)
(*                                                                         *)
(* Bytes are the integers 0..255 and strings are sequences of bytes.  A    *)
(* value handed to the encoder is a record [t, n, s, c]: its serde shape   *)
(* t, a number n (an integer's value, a float's class, a length hint), a   *)
(* byte string s (string content, a variant's name, a finite float's       *)
(* shortest decimal text) and its children c in presentation order.        *)
(***************************************************************************)
EXTENDS Integers, Sequences, FiniteSets, TLC

\* ------------------------------------------------------------------ bounds

\* Largest number of writes a failing sink accepts before it rejects one.
MaxWrites == 5
\* Long strings are drawn with encoded lengths within SizeSlack of the limit.
SizeSlack == 2
\* Largest number of members presented to one open keyed group, call by call.
MaxEntries == 2
\* Longest run of bytes of the string inputs drawn from StringBytes.
MaxRun == 3
\* Longest output that is parsed back.
MaxText == 64

\* --------------------------------------------------------------- constants

\* lib.rs:35, the ceiling of to_canonical_vec
SizeLimit == 65535
\* serializer.rs:888-896, the codes of the ESCAPE table
BB == 98
TT == 116
NN == 110
FF == 102
RR == 114
QU == 34
BS == 92
UU == 117
NoEscape == 0

\* A sink that never rejects a write (a Vec<u8>) has this budget.
NoFail == -1

\* ------------------------------------------------------------------ errors

\* error.rs:4-9: the kinds of Error; "Ok" stands for Result::Ok.
Ok == [kind |-> "Ok", msg |-> ""]
\* the io::Error a failing sink hands back (lib.rs:520)
IoFailed == [kind |-> "io", msg |-> "failed"]
\* error.rs:34-36
ErrorIo(err) == [kind |-> "IOError", msg |-> err.msg]
\* error.rs:23-28
ErrorCustom(msg) == [kind |-> "Custom", msg |-> msg]
ErrorInvalidInput(msg) == [kind |-> "InvalidInput", msg |-> msg]
ErrorSizeLimit == [kind |-> "SizeLimit", msg |-> ""]
\* A panic (unreachable!(), a slice off a character boundary, expect on a
\* None): no Result is returned, the panic unwinds through every caller.
Panic(msg) == [kind |-> "Panic", msg |-> msg]

IsOk(r) == r.e.kind = "Ok"
Panicked(r) == r.e.kind = "Panic"

\* r.map_err(Error::io) and r.map_err(Error::custom): the io::Error's Display
\* text becomes the message of a Custom error.
MapErrIo(r) == IF IsOk(r) \/ Panicked(r) THEN r ELSE [r EXCEPT !.e = ErrorIo(r.e)]
MapErrCustom(r) ==
    IF IsOk(r) \/ Panicked(r) THEN r ELSE [r EXCEPT !.e = ErrorCustom(r.e.msg)]

\* -------------------------------------------------------------------- sink

\* A sink: the bytes it holds, the number of writes it still accepts (NoFail:
\* all of them), whether it has rejected a write, and the number of writes
\* attempted after the first rejected one.
NewSink(budget) == [buf |-> <<>>, budget |-> budget, failed |-> FALSE, late |-> 0]

\* io::Write::write_all: one write event; a rejected write stores nothing.
write_all(w, bytes) ==
    IF w.budget = 0
    THEN [w |-> [w EXCEPT !.failed = TRUE,
                          !.late = IF w.failed THEN @ + 1 ELSE @],
          e |-> IoFailed]
    ELSE [w |-> [w EXCEPT !.buf = @ \o bytes,
                          !.budget = IF @ = NoFail THEN @ ELSE @ - 1],
          e |-> Ok]

\* A step that writes nothing and succeeds.
Pass(w) == [w |-> w, e |-> Ok]
\* A step that fails without touching the sink.
Fail(w, err) == [w |-> w, e |-> err]

\* tri!(r) and r?: an error is returned at once, and otherwise the next step
\* runs on the sink the step left (serializer.rs:16-26)
Then(r, Step(_)) == IF IsOk(r) THEN Step(r.w) ELSE r
\* the same for a step on an open Compound or on the pairs of a MapKeySorted
ThenC(c, Step(_)) == IF IsOk(c) THEN Step(c) ELSE c

\* --------------------------------------------------------------- formatter

\* The Formatter's default methods (CanonicalJsonFmt overrides none, lib.rs:395):
\* compact JSON tokens, one write_all each.
write_null(w) == write_all(w, <<110, 117, 108, 108>>)
write_bool(w, value) ==
    write_all(w, IF value THEN <<116, 114, 117, 101>> ELSE <<102, 97, 108, 115, 101>>)

RECURSIVE Digits(_)
Digits(n) == IF n < 10 THEN <<48 + n>> ELSE Digits(n \div 10) \o <<48 + (n % 10)>>
\* minimal decimal digits, a sign only when negative
Decimal(n) == IF n < 0 THEN <<45>> \o Digits(-n) ELSE Digits(n)

write_int(w, value) == write_all(w, Decimal(value))
write_number_str(w, text) == write_all(w, text)
\* a finite float is written as its shortest decimal text
write_float(w, text) == write_all(w, text)

begin_array(w) == write_all(w, <<91>>)
end_array(w) == write_all(w, <<93>>)
begin_array_value(w, first) == IF first THEN Pass(w) ELSE write_all(w, <<44>>)
end_array_value(w) == Pass(w)
begin_object(w) == write_all(w, <<123>>)
end_object(w) == write_all(w, <<125>>)
begin_object_key(w, first) == IF first THEN Pass(w) ELSE write_all(w, <<44>>)
end_object_key(w) == Pass(w)
begin_object_value(w) == write_all(w, <<58>>)
end_object_value(w) == Pass(w)
begin_string(w) == write_all(w, <<34>>)
end_string(w) == write_all(w, <<34>>)
write_string_fragment(w, fragment) == write_all(w, fragment)

HexDigit(d) == IF d < 10 THEN 48 + d ELSE 97 + (d - 10)
\* a CharEscape; AsciiControl carries the byte
CharEscape(kind, byte) == [kind |-> kind, byte |-> byte]
\* write_char_escape: the two-byte escapes, and \u00XX for AsciiControl(byte)
CharEscapeBytes(char_escape) ==
    CASE char_escape.kind = "Quote" -> <<92, 34>>
      [] char_escape.kind = "ReverseSolidus" -> <<92, 92>>
      [] char_escape.kind = "Backspace" -> <<92, 98>>
      [] char_escape.kind = "FormFeed" -> <<92, 102>>
      [] char_escape.kind = "LineFeed" -> <<92, 110>>
      [] char_escape.kind = "CarriageReturn" -> <<92, 114>>
      [] char_escape.kind = "Tab" -> <<92, 116>>
      [] char_escape.kind = "AsciiControl" ->
            <<92, 117, 48, 48, HexDigit(char_escape.byte \div 16),
              HexDigit(char_escape.byte % 16)>>
write_char_escape(w, char_escape) == write_all(w, CharEscapeBytes(char_escape))

\* --------------------------------------------------------------- escaping

\* serializer.rs:900-917: the table, by byte
ESCAPE ==
    [byte \in 0..255 |->
        IF byte < 32
        THEN CASE byte = 8 -> BB
               [] byte = 9 -> TT
               [] byte = 10 -> NN
               [] byte = 12 -> FF
               [] byte = 13 -> RR
               [] OTHER -> UU
        ELSE IF byte = 34 THEN QU
        ELSE IF byte = 92 THEN BS
        ELSE NoEscape]

\* the `_ => unreachable!()` arm of from_escape_table
Unreachable == CharEscape("unreachable", 0)

\* a match without the FormFeed arm
from_escape_table_no_ff(escape, byte) ==
    CASE escape = BB -> CharEscape("Backspace", 0)
      [] escape = TT -> CharEscape("Tab", 0)
      [] escape = NN -> CharEscape("LineFeed", 0)
      [] escape = RR -> CharEscape("CarriageReturn", 0)
      [] escape = QU -> CharEscape("Quote", 0)
      [] escape = BS -> CharEscape("ReverseSolidus", 0)
      [] escape = UU -> CharEscape("AsciiControl", byte)
      [] OTHER -> Unreachable

\* serializer.rs:873-886
from_escape_table(escape, byte) ==
    CASE escape = BB -> CharEscape("Backspace", 0)
      [] escape = TT -> CharEscape("Tab", 0)
      [] escape = NN -> CharEscape("LineFeed", 0)
      [] escape = FF -> CharEscape("FormFeed", 0)
      [] escape = RR -> CharEscape("CarriageReturn", 0)
      [] escape = QU -> CharEscape("Quote", 0)
      [] escape = BS -> CharEscape("ReverseSolidus", 0)
      [] escape = UU -> CharEscape("AsciiControl", byte)
      [] OTHER -> Unreachable

\* serializer.rs:858-861: the escape of one byte is written, unless
\* from_escape_table has panicked
WriteEscape(w, char_escape) ==
    IF char_escape = Unreachable
    THEN Fail(w, Panic("internal error: entered unreachable code"))
    ELSE MapErrCustom(write_char_escape(w, char_escape))

\* str::is_char_boundary at the 1-based position idx: the ends of the string,
\* and every byte that is not a continuation byte
is_char_boundary(value, idx) ==
    \/ idx = 1
    \/ idx = Len(value) + 1
    \/ idx \in 2..Len(value) /\ value[idx] \notin 128..191

\* serializer.rs:851-855, 864-868: &value[start..i] (1-based: the bytes from
\* start to i - 1) is written as one fragment; the slice panics when an index
\* is out of order, past the end or inside a character
WriteSlice(w, value, start, i) ==
    IF /\ start <= i
       /\ i <= Len(value) + 1
       /\ is_char_boundary(value, start)
       /\ is_char_boundary(value, i)
    THEN MapErrCustom(write_string_fragment(w, SubSeq(value, start, i - 1)))
    ELSE Fail(w, Panic("byte index is not a char boundary"))

\* serializer.rs:844-848: the first index at or after `from` (1-based) whose
\* byte is escaped, or Len + 1 when the loop runs out
NextEscape(bytes, from) ==
    LET hits == {i \in from..Len(bytes) : ESCAPE[bytes[i]] # NoEscape}
    IN IF hits = {} THEN Len(bytes) + 1
       ELSE CHOOSE i \in hits : \A j \in hits : i <= j

RECURSIVE EscapeFrom(_, _, _)
\* a loop that leaves out the fragment after the last escape
EscapeAt_no_tail(w, value, start, i) ==
    IF i > Len(value)
    THEN Pass(w)
    ELSE Then(Then(IF start < i
                   THEN WriteSlice(w, value, start, i)
                   ELSE Pass(w),
                   LAMBDA w1 : WriteEscape(w1, from_escape_table(ESCAPE[value[i]], value[i]))),
              LAMBDA w2 : EscapeFrom(w2, value, i + 1))

\* serializer.rs:850-868: with the bytes from `start` unwritten and i the next
\* escaped index: the bytes before i go out as one fragment, then the escape
EscapeAt(w, value, start, i) ==
    IF i > Len(value)
    THEN IF start # Len(value) + 1
         THEN WriteSlice(w, value, start, Len(value) + 1)
         ELSE Pass(w)
    ELSE Then(Then(IF start < i
                   THEN WriteSlice(w, value, start, i)
                   ELSE Pass(w),
                   LAMBDA w1 : WriteEscape(w1, from_escape_table(ESCAPE[value[i]], value[i]))),
              LAMBDA w2 : EscapeFrom(w2, value, i + 1))

\* serializer.rs:842-862: the loop, from index `start` on
EscapeFrom(w, value, start) == EscapeAt(w, value, start, NextEscape(value, start))

\* serializer.rs:832-871
format_escaped_str_contents(w, value) == EscapeFrom(w, value, 1)

\* serializer.rs:818-830
format_escaped_str(w, value) ==
    Then(Then(MapErrCustom(begin_string(w)),
              LAMBDA w1 : format_escaped_str_contents(w1, value)),
         LAMBDA w2 : MapErrCustom(end_string(w2)))

\* ------------------------------------------------------------------ values

\* serializer.rs:319, 388: the length hint None of serialize_seq and
\* serialize_map
NoHint == -1

IntShapes == {"i8", "i16", "i32", "i64", "i128", "u8", "u16", "u32", "u64", "u128"}
FloatShapes == {"f32", "f64"}
\* a float's class (f64::classify)
Finite == 0
Nan == 1
Infinite == 2

Val(t, n, s, c) == [t |-> t, n |-> n, s |-> s, c |-> c]
Bool(b) == Val("bool", IF b THEN 1 ELSE 0, <<>>, <<>>)
IntV(t, n) == Val(t, n, <<>>, <<>>)
Float(t, class, text) == Val(t, class, text, <<>>)
Char(utf8) == Val("char", 0, utf8, <<>>)
Str(s) == Val("str", 0, s, <<>>)
Bytes(s) == Val("bytes", 0, s, <<>>)
Unit == Val("unit", 0, <<>>, <<>>)
None == Val("none", 0, <<>>, <<>>)
Some(v) == Val("some", 0, <<>>, <<v>>)
UnitStruct == Val("unit_struct", 0, <<>>, <<>>)
UnitVariant(variant) == Val("unit_variant", 0, variant, <<>>)
NewtypeStruct(v) == Val("newtype_struct", 0, <<>>, <<v>>)
NewtypeVariant(variant, v) == Val("newtype_variant", 0, variant, <<v>>)
\* sequences, tuples and keyed groups carry the length hint their Serialize
\* impl passes: the exact length
SeqOf(elems) == Val("seq", Len(elems), <<>>, elems)
\* a sequence whose Serialize impl passes the hint it is given
SeqHinted(hint, elems) == Val("seq", hint, <<>>, elems)
Tuple(elems) == Val("tuple", Len(elems), <<>>, elems)
TupleStruct(elems) == Val("tuple_struct", Len(elems), <<>>, elems)
TupleVariant(variant, elems) == Val("tuple_variant", Len(elems), variant, elems)
Entry(k, v) == Val("entry", 0, <<>>, <<k, v>>)
MapOf(entries) == Val("map", Len(entries), <<>>, entries)
\* a map whose Serialize impl passes the hint it is given
MapHinted(hint, entries) == Val("map", hint, <<>>, entries)
\* a struct's members are keyed by its field names, which are strings
Struct(entries) == Val("struct", Len(entries), <<>>, entries)
StructVariant(variant, entries) == Val("struct_variant", Len(entries), variant, entries)
\* a value whose Serialize impl calls collect_str with a Display: its fmt
\* writes the chunks one write_str each, returning the first error at once,
\* and then returns Ok, or an error of its own when `fails`
Display(fails, chunks) ==
    Val("display", IF fails THEN 1 ELSE 0, <<>>, [i \in 1..Len(chunks) |-> Str(chunks[i])])

KeyOf(entry) == entry.c[1]
ValueOf(entry) == entry.c[2]

\* -------------------------------------------------- Serializer (streaming)

\* value.serialize(&mut Serializer), value.serialize(MapKeySerializer),
\* value.serialize(&mut CanonicalJson): the value's Serialize impl calls the
\* method of its shape.
RECURSIVE SerializeToSerializer(_, _)
RECURSIVE SerializeToMapKey(_, _)
RECURSIVE SerializeToCanonicalJson(_, _)

\* serializer.rs:70-77
Serializer_serialize_bool(w, value) == MapErrIo(write_bool(w, value))
\* serializer.rs:79-165; the 128-bit widths go through to_string
Serializer_serialize_int(w, shape, value) ==
    IF shape \in {"i128", "u128"}
    THEN MapErrIo(write_number_str(w, Decimal(value)))
    ELSE MapErrIo(write_int(w, value))
\* serializer.rs:167-203
Serializer_serialize_float(w, class, text) ==
    IF class \in {Nan, Infinite}
    THEN MapErrIo(write_null(w))
    ELSE MapErrIo(write_float(w, text))
\* serializer.rs:212-220
Serializer_serialize_str(w, value) == format_escaped_str(w, value)
\* serializer.rs:205-210
Serializer_serialize_char(w, utf8) == Serializer_serialize_str(w, utf8)
\* serializer.rs:232-239
Serializer_serialize_unit(w) == MapErrIo(write_null(w))
\* serializer.rs:241-244
Serializer_serialize_unit_struct(w) == Serializer_serialize_unit(w)
\* serializer.rs:246-254
Serializer_serialize_unit_variant(w, variant) == Serializer_serialize_str(w, variant)
\* serializer.rs:305-308
Serializer_serialize_none(w) == Serializer_serialize_unit(w)

\* An open Compound is [w, e, state]: the sink, the Result of the call that
\* returned it and its State (serializer.rs:501-505).
SetState(r, state) == [w |-> r.w, e |-> r.e, state |-> state]
\* what is left of a Compound when it is consumed: the sink and the Result
Res(r) == [w |-> r.w, e |-> r.e]

\* serializer.rs:318-343
Serializer_serialize_seq(w, len) ==
    IF len = 0
    THEN SetState(Then(MapErrIo(begin_array(w)), LAMBDA w1 : MapErrIo(end_array(w1))),
                  "Empty")
    ELSE SetState(MapErrIo(begin_array(w)), "First")

\* serializer.rs:387-412
Serializer_serialize_map(w, len) ==
    IF len = 0
    THEN SetState(Then(MapErrIo(begin_object(w)), LAMBDA w1 : MapErrIo(end_object(w1))),
                  "Empty")
    ELSE SetState(MapErrIo(begin_object(w)), "First")

\* serializer.rs:414-417
Serializer_serialize_struct(w, len) == Serializer_serialize_map(w, len)

\* serializer.rs:367-383, 427-443: `{`, the variant's name as the key, `:`
VariantHead(w, variant) ==
    Then(Then(Then(Then(MapErrIo(begin_object(w)),
                        LAMBDA w1 : MapErrIo(begin_object_key(w1, TRUE))),
                   LAMBDA w2 : Serializer_serialize_str(w2, variant)),
              LAMBDA w3 : MapErrIo(end_object_key(w3))),
         LAMBDA w4 : MapErrIo(begin_object_value(w4)))

\* serializer.rs:359-385
Serializer_serialize_tuple_variant(w, variant, len) ==
    SetState(Then(VariantHead(w, variant), LAMBDA w1 : Serializer_serialize_seq(w1, len)),
             IF len = 0 THEN "Empty" ELSE "First")

\* serializer.rs:419-445
Serializer_serialize_struct_variant(w, variant, len) ==
    SetState(Then(VariantHead(w, variant), LAMBDA w1 : Serializer_serialize_map(w1, len)),
             IF len = 0 THEN "Empty" ELSE "First")

\* serializer.rs:265-303
Serializer_serialize_newtype_variant(w, variant, value) ==
    Then(Then(Then(VariantHead(w, variant),
                   LAMBDA w1 : SerializeToSerializer(value, w1)),
              LAMBDA w2 : MapErrIo(end_object_value(w2))),
         LAMBDA w3 : MapErrIo(end_object(w3)))

\* ---------------------------------------------------------------- Compound

\* `*state = State::Rest` once the tri! before it has passed (serializer.rs:533,
\* 667), and then the rest of the call
Begun(r, state, Rest(_)) ==
    IF IsOk(r) THEN SetState(Rest(r.w), "Rest") ELSE SetState(r, state)

\* a serialize_element that writes the comma before the first element too
Compound_serialize_element_comma(c, value) ==
    Begun(MapErrIo(begin_array_value(c.w, FALSE)), c.state,
          LAMBDA w1 : Then(SerializeToSerializer(value, w1),
                           LAMBDA w2 : MapErrIo(end_array_value(w2))))

\* serializer.rs:519-546 (SerializeSeq::serialize_element; the tuple, tuple
\* struct and tuple variant impls forward to it, 574-621)
Compound_serialize_element(c, value) ==
    Begun(MapErrIo(begin_array_value(c.w, c.state = "First")), c.state,
          LAMBDA w1 : Then(SerializeToSerializer(value, w1),
                           LAMBDA w2 : MapErrIo(end_array_value(w2))))

\* serializer.rs:548-563
Compound_SerializeSeq_end(c) ==
    IF c.state = "Empty" THEN Pass(c.w) ELSE MapErrIo(end_array(c.w))

\* an end() that closes the array whatever the state
Compound_SerializeTupleVariant_end_always(c) ==
    Then(Then(MapErrIo(end_array(c.w)),
              LAMBDA w1 : MapErrIo(end_object_value(w1))),
         LAMBDA w2 : MapErrIo(end_object(w2)))

\* serializer.rs:623-643
Compound_SerializeTupleVariant_end(c) ==
    Then(Then(IF c.state = "Empty" THEN Pass(c.w) ELSE MapErrIo(end_array(c.w)),
              LAMBDA w1 : MapErrIo(end_object_value(w1))),
         LAMBDA w2 : MapErrIo(end_object(w2)))

\* serializer.rs:653-682
Compound_serialize_key(c, key) ==
    Begun(MapErrIo(begin_object_key(c.w, c.state = "First")), c.state,
          LAMBDA w1 : Then(SerializeToMapKey(key, w1),
                           LAMBDA w2 : MapErrIo(end_object_key(w2))))

\* serializer.rs:684-707
Compound_serialize_value(c, value) ==
    SetState(Then(Then(MapErrIo(begin_object_value(c.w)),
                       LAMBDA w1 : SerializeToSerializer(value, w1)),
                  LAMBDA w2 : MapErrIo(end_object_value(w2))),
             c.state)

\* SerializeMap::serialize_entry is not overridden by Compound: serde's default
\* is serialize_key, then serialize_value (serializer.rs:646-725, 735-740)
Compound_serialize_entry(c, key, value) ==
    ThenC(Compound_serialize_key(c, key), LAMBDA c1 : Compound_serialize_value(c1, value))

\* serializer.rs:709-724 (SerializeStruct::end forwards to it, 762-771)
Compound_SerializeMap_end(c) ==
    IF c.state = "Empty" THEN Pass(c.w) ELSE MapErrIo(end_object(c.w))

\* serializer.rs:795-815
Compound_SerializeStructVariant_end(c) ==
    Then(Then(IF c.state = "Empty" THEN Pass(c.w) ELSE MapErrIo(end_object(c.w)),
              LAMBDA w1 : MapErrIo(end_object_value(w1))),
         LAMBDA w2 : MapErrIo(end_object(w2)))

\* The loop of a sequence's Serialize impl: serialize_element(e)? for each
\* element from index i on.
RECURSIVE Elements(_, _, _)
Elements(c, elems, i) ==
    IF i > Len(elems) THEN c
    ELSE ThenC(Compound_serialize_element(c, elems[i]),
               LAMBDA c1 : Elements(c1, elems, i + 1))

\* The loop of a map's or struct's Serialize impl over a Compound.
RECURSIVE Entries(_, _, _)
Entries(c, entries, i) ==
    IF i > Len(entries) THEN c
    ELSE ThenC(Compound_serialize_entry(c, KeyOf(entries[i]), ValueOf(entries[i])),
               LAMBDA c1 : Entries(c1, entries, i + 1))

\* a sequence's Serialize impl: serialize_seq(Some(len))?, the elements, end()
SerializeSeqWith(open, elems) ==
    Res(ThenC(ThenC(open, LAMBDA c : Elements(c, elems, 1)),
              LAMBDA c : Compound_SerializeSeq_end(c)))

\* a tuple variant's: serialize_tuple_variant(..)?, the fields, end()
SerializeTupleVariantWith(open, elems) ==
    Res(ThenC(ThenC(open, LAMBDA c : Elements(c, elems, 1)),
              LAMBDA c : Compound_SerializeTupleVariant_end(c)))

\* a map's or struct's over a Compound: serialize_map(Some(len))?, the
\* entries, end()
SerializeMapWith(open, entries) ==
    Res(ThenC(ThenC(open, LAMBDA c : Entries(c, entries, 1)),
              LAMBDA c : Compound_SerializeMap_end(c)))

\* a struct variant's: serialize_struct_variant(..)?, the fields, end()
SerializeStructVariantWith(open, entries) ==
    Res(ThenC(ThenC(open, LAMBDA c : Entries(c, entries, 1)),
              LAMBDA c : Compound_SerializeStructVariant_end(c)))

\* fmt::Error, and the io::Error the Adapter records (serializer.rs:467)
FmtError == [kind |-> "fmt", msg |-> ""]
NoIoError == [kind |-> "None", msg |-> ""]
WriteFailed == [kind |-> "io", msg |-> "write failed"]

\* serializer.rs:480-484: the Adapter over the sink, no error recorded
Adapter(w) == [w |-> w, e |-> Ok, error |-> NoIoError]

\* serializer.rs:464-470: the match on what format_escaped_str_contents returned
AdapterWrote(adapter, r) ==
    IF IsOk(r) \/ Panicked(r)
    THEN [w |-> r.w, e |-> r.e, error |-> adapter.error]
    ELSE [w |-> r.w, e |-> FmtError, error |-> WriteFailed]

\* serializer.rs:462-471: Adapter::write_str
Adapter_write_str(adapter, chunk) ==
    AdapterWrote(adapter, format_escaped_str_contents(adapter.w, chunk))

\* write!(adapter, "{}", value) (serializer.rs:485): the Display's fmt, from
\* chunk i on
RECURSIVE Display_fmt(_, _, _)
Display_fmt(adapter, value, i) ==
    IF i > Len(value.c)
    THEN IF value.n = 1 THEN [adapter EXCEPT !.e = FmtError] ELSE adapter
    ELSE ThenC(Adapter_write_str(adapter, value.c[i].s),
               LAMBDA a : Display_fmt(a, value, i + 1))

\* serializer.rs:485-490: the match on what write! returned; expect panics
\* when no write error was recorded
Formatted(adapter) ==
    IF IsOk(adapter) THEN Pass(adapter.w)
    ELSE IF Panicked(adapter) THEN Fail(adapter.w, adapter.e)
    ELSE IF adapter.error = NoIoError
    THEN Fail(adapter.w, Panic("there should be an error"))
    ELSE Fail(adapter.w, ErrorIo(adapter.error))

\* serializer.rs:447-497
Serializer_collect_str(w, value) ==
    Then(Then(MapErrIo(begin_string(w)),
              LAMBDA w1 : Formatted(Display_fmt(Adapter(w1), value, 1))),
         LAMBDA w2 : MapErrIo(end_string(w2)))

\* the bytes of a byte sequence as u8 values
ByteValues(value) == [i \in 1..Len(value) |-> IntV("u8", value[i])]

\* serializer.rs:222-230: a byte sequence is a sequence of u8
Serializer_serialize_bytes(w, value) ==
    SerializeSeqWith(Serializer_serialize_seq(w, Len(value)), ByteValues(value))

\* value.serialize(&mut Serializer): what the value's Serialize impl calls on
\* the streaming Serializer (serializer.rs:55-498)
SerializeToSerializer(v, w) ==
    CASE v.t = "bool" -> Serializer_serialize_bool(w, v.n = 1)
      [] v.t \in IntShapes -> Serializer_serialize_int(w, v.t, v.n)
      [] v.t \in FloatShapes -> Serializer_serialize_float(w, v.n, v.s)
      [] v.t = "char" -> Serializer_serialize_char(w, v.s)
      [] v.t = "str" -> Serializer_serialize_str(w, v.s)
      [] v.t = "bytes" -> Serializer_serialize_bytes(w, v.s)
      [] v.t = "unit" -> Serializer_serialize_unit(w)
      [] v.t = "unit_struct" -> Serializer_serialize_unit_struct(w)
      [] v.t = "unit_variant" -> Serializer_serialize_unit_variant(w, v.s)
      [] v.t = "none" -> Serializer_serialize_none(w)
      [] v.t = "display" -> Serializer_collect_str(w, v)
      \* serializer.rs:310-316 and 256-263: value.serialize(self)
      [] v.t \in {"some", "newtype_struct"} -> SerializeToSerializer(v.c[1], w)
      [] v.t = "newtype_variant" -> Serializer_serialize_newtype_variant(w, v.s, v.c[1])
      \* serializer.rs:345-357: tuples and tuple structs are sequences
      [] v.t \in {"seq", "tuple", "tuple_struct"} ->
            SerializeSeqWith(Serializer_serialize_seq(w, v.n), v.c)
      [] v.t = "tuple_variant" ->
            SerializeTupleVariantWith(Serializer_serialize_tuple_variant(w, v.s, v.n), v.c)
      [] v.t = "map" -> SerializeMapWith(Serializer_serialize_map(w, v.n), v.c)
      [] v.t = "struct" -> SerializeMapWith(Serializer_serialize_struct(w, v.n), v.c)
      [] v.t = "struct_variant" ->
            SerializeStructVariantWith(Serializer_serialize_struct_variant(w, v.s, v.n), v.c)

\* -------------------------------------------------------- MapKeySerializer

\* map_key.rs:24-26
key_must_be_a_string == ErrorCustom("key must be a string")

\* map_key.rs:35-38
MapKey_serialize_str(w, value) == Serializer_serialize_str(w, value)
\* map_key.rs:40-48
MapKey_serialize_unit_variant(w, variant) == Serializer_serialize_str(w, variant)
\* map_key.rs:70-121
MapKey_serialize_int(w, shape, value) == Serializer_serialize_int(w, shape, value)
\* map_key.rs:131-133
MapKey_serialize_char(w, utf8) == Serializer_serialize_str(w, utf8)
\* map_key.rs:215-221
MapKey_collect_str(w, value) == Serializer_collect_str(w, value)
\* map_key.rs:66-68, 123-129, 135-213: every other shape
MapKey_serialize_other(w) == Fail(w, key_must_be_a_string)

\* key.serialize(MapKeySerializer { ser }) (map_key.rs:28-221)
SerializeToMapKey(key, w) ==
    CASE key.t = "str" -> MapKey_serialize_str(w, key.s)
      [] key.t = "unit_variant" -> MapKey_serialize_unit_variant(w, key.s)
      \* map_key.rs:50-56: value.serialize(self)
      [] key.t = "newtype_struct" -> SerializeToMapKey(key.c[1], w)
      [] key.t \in IntShapes -> MapKey_serialize_int(w, key.t, key.n)
      [] key.t = "char" -> MapKey_serialize_char(w, key.s)
      [] key.t = "display" -> MapKey_collect_str(w, key)
      [] OTHER -> MapKey_serialize_other(w)

\* ------------------------------------------------------------ MapKeySorted

\* the least element of a non-empty set of indices
Least(S) == CHOOSE i \in S : \A j \in S : i <= j

\* String's Ord: byte-wise lexicographic order, a proper prefix first
StrLess(a, b) ==
    LET diff == {i \in 1..Len(a) : i <= Len(b) /\ a[i] # b[i]}
    IN IF diff = {} THEN Len(a) < Len(b) ELSE a[Least(diff)] < b[Least(diff)]

\* insert a string into a sorted sequence, after its equals
RECURSIVE Insert(_, _)
Insert(sorted, x) ==
    IF sorted = <<>> THEN <<x>>
    ELSE IF StrLess(x, Head(sorted)) THEN <<x>> \o sorted
    ELSE <<Head(sorted)>> \o Insert(Tail(sorted), x)

\* lib.rs:349, self.pairs.sort(): ascending, stable
RECURSIVE SortStrings(_)
\* a sort that keeps one of equal strings
SortStrings_dedup(strings) ==
    IF strings = <<>> THEN <<>>
    ELSE IF \E i \in 1..(Len(strings) - 1) : strings[i] = strings[Len(strings)]
    THEN SortStrings(SubSeq(strings, 1, Len(strings) - 1))
    ELSE Insert(SortStrings(SubSeq(strings, 1, Len(strings) - 1)), strings[Len(strings)])

SortStrings(strings) ==
    IF strings = <<>> THEN <<>>
    ELSE Insert(SortStrings(SubSeq(strings, 1, Len(strings) - 1)), strings[Len(strings)])

\* lib.rs:263-269: no write; the open MapKeySorted holds no pairs
CanonicalJson_serialize_map == [pairs |-> <<>>, e |-> Ok]

\* lib.rs:323, buf.push(b':')
Push(buf, byte) == [buf EXCEPT !.buf = @ \o <<byte>>]

\* lib.rs:326-329: the buffer of a rendered entry joins the pairs
Collect(pairs, r) ==
    IF IsOk(r)
    THEN [pairs |-> Append(pairs, r.w.buf), e |-> Ok]
    ELSE [pairs |-> pairs, e |-> r.e]

\* lib.rs:314-330: the key and the value are rendered into a buffer of the
\* entry's own. The result is [pairs, e].
MapKeySorted_serialize_entry(pairs, key, value) ==
    Collect(pairs, Then(SerializeToMapKey(key, NewSink(NoFail)),
                        LAMBDA buf : SerializeToSerializer(value, Push(buf, 58))))

\* lib.rs:332-337
MapKeySorted_serialize_key(pairs, key) == [pairs |-> pairs, e |-> Ok]
\* lib.rs:339-344
MapKeySorted_serialize_value(pairs, value) == [pairs |-> pairs, e |-> Ok]

\* lib.rs:352-363: the loop of end() from pair idx (1-based) on
RECURSIVE WritePairs(_, _, _)
WritePairs(w, sorted, idx) ==
    IF idx > Len(sorted) THEN Pass(w)
    ELSE Then(Then(MapErrIo(write_all(w, sorted[idx])),
                   LAMBDA w1 : IF Len(sorted) # idx
                               THEN MapErrIo(write_all(w1, <<44>>))
                               ELSE Pass(w1)),
              LAMBDA w2 : WritePairs(w2, sorted, idx + 1))

\* an end() that drops the Result of every write but the last
MapKeySorted_end_unchecked(w, pairs) ==
    MapErrIo(write_all(WritePairs(write_all(w, <<123>>).w, SortStrings(pairs), 1).w, <<125>>))

\* lib.rs:346-369
MapKeySorted_end(w, pairs) ==
    Then(Then(MapErrIo(write_all(w, <<123>>)),
              LAMBDA w1 : WritePairs(w1, SortStrings(pairs), 1)),
         LAMBDA w2 : MapErrIo(write_all(w2, <<125>>)))

\* The loop of a map's or struct's Serialize impl over a MapKeySorted:
\* serialize_entry(k, v)? (a struct: serialize_field, lib.rs:379-385) for each
\* member from index i on.
RECURSIVE SortedEntries(_, _, _)
SortedEntries(m, entries, i) ==
    IF i > Len(entries) THEN m
    ELSE ThenC(MapKeySorted_serialize_entry(m.pairs, KeyOf(entries[i]), ValueOf(entries[i])),
               LAMBDA m1 : SortedEntries(m1, entries, i + 1))

\* a keyed group that writes its `{` to the sink before its entries are
\* looked at
SerializeSortedWith_eager(w, m) ==
    Then(MapErrIo(write_all(w, <<123>>)),
         LAMBDA w1 : IF IsOk(m)
                     THEN Then(WritePairs(w1, SortStrings(m.pairs), 1),
                               LAMBDA w2 : MapErrIo(write_all(w2, <<125>>)))
                     ELSE Fail(w1, m.e))

\* a map's or struct's Serialize impl over a MapKeySorted: the entries, end()
SerializeSortedWith(w, m) ==
    IF IsOk(m) THEN MapKeySorted_end(w, m.pairs) ELSE Fail(w, m.e)

\* ----------------------------------------------------------- CanonicalJson

\* lib.rs:137-151; the message ends with the float's Display text
CanonicalJson_serialize_float(w, shape) ==
    Fail(w, ErrorInvalidInput(IF shape = "f32"
                              THEN "f32 is not valid in canonical JSON found"
                              ELSE "f64 is not valid in canonical JSON found"))

\* a serialize_bytes that writes the bytes as a string
CanonicalJson_serialize_bytes_as_str(w, value) == Serializer_serialize_str(w, value)

\* lib.rs:165-173, through serialize_seq (lib.rs:232-235)
CanonicalJson_serialize_bytes(w, value) ==
    SerializeSeqWith(Serializer_serialize_seq(w, Len(value)), ByteValues(value))

\* value.serialize(&mut CanonicalJson) (lib.rs:64-294)
SerializeToCanonicalJson(v, w) ==
    CASE v.t = "bool" -> Serializer_serialize_bool(w, v.n = 1)
      [] v.t \in IntShapes -> Serializer_serialize_int(w, v.t, v.n)
      [] v.t \in FloatShapes -> CanonicalJson_serialize_float(w, v.t)
      [] v.t \in {"char", "str", "unit_variant"} -> Serializer_serialize_str(w, v.s)
      [] v.t = "bytes" -> CanonicalJson_serialize_bytes(w, v.s)
      [] v.t \in {"unit", "unit_struct", "none"} -> Serializer_serialize_unit(w)
      \* lib.rs:288-293
      [] v.t = "display" -> Serializer_collect_str(w, v)
      \* lib.rs:195-202, 224-230: value.serialize(self)
      [] v.t \in {"some", "newtype_struct"} -> SerializeToCanonicalJson(v.c[1], w)
      \* lib.rs:204-217
      [] v.t = "newtype_variant" -> Serializer_serialize_newtype_variant(w, v.s, v.c[1])
      \* lib.rs:232-249: a Compound over the streaming Serializer
      [] v.t \in {"seq", "tuple", "tuple_struct"} ->
            SerializeSeqWith(Serializer_serialize_seq(w, v.n), v.c)
      \* lib.rs:251-261
      [] v.t = "tuple_variant" ->
            SerializeTupleVariantWith(Serializer_serialize_tuple_variant(w, v.s, v.n), v.c)
      \* lib.rs:263-274
      [] v.t \in {"map", "struct"} ->
            SerializeSortedWith(w, SortedEntries(CanonicalJson_serialize_map, v.c, 1))
      \* lib.rs:276-286
      [] v.t = "struct_variant" ->
            SerializeStructVariantWith(Serializer_serialize_struct_variant(w, v.s, v.n), v.c)

\* ------------------------------------------------------------ entry points

\* lib.rs:17-26
to_canonical_writer(writer, value) == SerializeToCanonicalJson(value, writer)

\* a to_canonical_vec that compares with >= in place of >
to_canonical_vec_inclusive(value) ==
    ThenC(to_canonical_writer(NewSink(NoFail), value),
          LAMBDA r : IF Len(r.w.buf) >= SizeLimit THEN Fail(r.w, ErrorSizeLimit) ELSE r)

\* lib.rs:28-39: [w, e], w the Vec the value was encoded into
to_canonical_vec(value) ==
    ThenC(to_canonical_writer(NewSink(NoFail), value),
          LAMBDA r : IF Len(r.w.buf) > SizeLimit THEN Fail(r.w, ErrorSizeLimit) ELSE r)

\* lib.rs:46-49: the String of the Vec's bytes
StringOf(vec) == [w |-> vec.w, e |-> vec.e, out |-> IF IsOk(vec) THEN vec.w.buf ELSE <<>>]

\* lib.rs:41-50: [w, e, out], out the String returned when e is Ok
to_canonical_string(value) == StringOf(to_canonical_vec(value))

\* ------------------------------------------------------------------ inputs

sa == <<97>>
sb == <<98>>
sx == <<120>>
sy == <<121>>
sz == <<122>>
sV == <<86>>
\* the decimal text 1.01
s101 == <<49, 46, 48, 49>>
u8(n) == IntV("u8", n)

\* a string of n bytes `a`, as a tuple
Run(n) == SubSeq([i \in 1..n |-> 97], 1, n)

\* keys: a, b, A, `a!`, `a `, a quote, a backslash, a line feed, U+0001, the
\* three-byte characters U+65E5 and U+672C
KeyStrings ==
    {sa, sb, <<65>>, <<97, 33>>, <<97, 32>>, <<34>>, <<92>>, <<10>>, <<1>>,
     <<230, 151, 165>>, <<230, 156, 172>>}

\* a map of two members with distinct string keys, in either order
TwoKeyMaps ==
    {MapOf(<<Entry(Str(k1), u8(1)), Entry(Str(k2), u8(2))>>) :
        <<k1, k2>> \in {p \in KeyStrings \X KeyStrings : p[1] # p[2]}}

\* a key of every shape
KeyShapes ==
    {Str(sa), Char(sa), UnitVariant(sV), NewtypeStruct(Str(sa)),
     NewtypeStruct(u8(1)), NewtypeStruct(Bool(TRUE)), IntV("i8", -1),
     IntV("i128", 23)}
    \cup {IntV(t, 1) : t \in IntShapes}
    \cup {Bool(TRUE), Float("f32", Finite, s101), Float("f64", Nan, <<>>),
          Bytes(sa), Unit, UnitStruct, None, Some(Str(sa)), SeqOf(<<>>),
          Tuple(<<u8(1), u8(2)>>), TupleStruct(<<u8(1)>>), MapOf(<<>>),
          Struct(<<>>), NewtypeVariant(sV, Str(sa)), TupleVariant(sV, <<>>),
          StructVariant(sV, <<>>)}

\* a keyed group of one member under each key, at the root and as the element
\* of a root sequence
KeyShapeInputs ==
    {MapOf(<<Entry(k, u8(1))>>) : k \in KeyShapes}
    \cup {SeqOf(<<MapOf(<<Entry(k, u8(1))>>)>>) : k \in KeyShapes}

Floats ==
    {Float("f64", Finite, s101), Float("f32", Finite, s101),
     Float("f64", Nan, <<>>), Float("f32", Infinite, <<>>)}

\* the places a value can take in a structure
Holders(v) ==
    {v, Some(v), NewtypeStruct(v), SeqOf(<<v>>), Tuple(<<u8(1), v>>),
     MapOf(<<Entry(Str(sa), v)>>), Struct(<<Entry(Str(sx), v)>>),
     NewtypeVariant(sV, v), TupleVariant(sV, <<v>>),
     StructVariant(sV, <<Entry(Str(sx), v)>>),
     Struct(<<Entry(Str(sx), SeqOf(<<v>>))>>)}

FloatInputs == UNION {Holders(f) : f \in Floats}

\* every order of the members of a sequence of entries
Orders(entries) ==
    {[i \in 1..Len(entries) |-> entries[p[i]]] :
        p \in {q \in [1..Len(entries) -> 1..Len(entries)] :
                  \A i, j \in 1..Len(entries) : i # j => q[i] # q[j]}}

\* {"a": 1, "b": 2} as a map and {x: 1, y: 23, z: 10} as a struct (lib.rs:485-496)
Groups ==
    {MapOf(es) : es \in Orders(<<Entry(Str(sa), u8(1)), Entry(Str(sb), u8(2))>>)}
    \cup {Struct(es) : es \in Orders(<<Entry(Str(sz), u8(10)), Entry(Str(sy), IntV("u64", 23)),
                                      Entry(Str(sx), IntV("u64", 1))>>)}

GroupInputs ==
    UNION {Holders(g) : g \in Groups}
    \cup {StructVariant(sV, es) :
            es \in Orders(<<Entry(Str(sa), u8(1)), Entry(Str(sb), u8(2))>>)}

ScalarInputs ==
    {Bool(TRUE), Bool(FALSE), u8(0), IntV("i64", -107), IntV("u128", 65535),
     Str(<<>>), Str(sa), Str(<<97, 34, 10, 1, 98, 92>>), Str(<<230, 151, 165>>),
     Char(sa), Bytes(<<>>), Bytes(<<1, 255>>), Unit, None, UnitStruct,
     UnitVariant(sV), SeqOf(<<>>), SeqOf(<<Str(sa), Str(sb)>>),
     MapOf(<<>>), TupleVariant(sV, <<>>), StructVariant(sV, <<>>)}

\* a root string, and a struct of one string field, whose encodings are
\* within SizeSlack bytes of the limit: the quotes take 2 bytes, {"x":""} 8
LongInputs ==
    {Str(Run(n)) : n \in (SizeLimit - 2 - SizeSlack)..(SizeLimit - 2 + SizeSlack)}
    \cup {Struct(<<Entry(Str(sx), Str(Run(n)))>>) :
            n \in (SizeLimit - 8 - SizeSlack)..(SizeLimit - 8 + SizeSlack)}

\* variants of every kind with 0, 1 and 2 payload values
VariantInputs ==
    {NewtypeVariant(sV, u8(1)), NewtypeVariant(sV, Str(sa)),
     NewtypeVariant(sV, SeqOf(<<u8(1), u8(2)>>)),
     TupleVariant(sV, <<u8(1)>>), TupleVariant(sV, <<u8(1), Str(sa)>>),
     TupleVariant(sa, <<SeqOf(<<>>), None>>),
     StructVariant(sV, <<Entry(Str(sx), u8(1))>>),
     StructVariant(sa, <<Entry(Str(sb), Str(sa)), Entry(Str(sa), SeqOf(<<u8(1)>>))>>)}

\* bytes of every class: a short escape, a \u escape, the quote, the
\* backslash and a plain byte
StringBytes == {10, 1, 34, 92, 97}
\* the strings of one to MaxRun bytes of StringBytes
Runs == UNION {[1..n -> StringBytes] : n \in 1..MaxRun}
\* strings: every ASCII byte alone, the runs, and characters of two, three
\* and four bytes at the ends of their ranges
StringInputs ==
    {Str(<<b>>) : b \in 0..127}
    \cup {Str(r) : r \in Runs}
    \cup {Str(<<l, c>>) : l \in {194, 223}, c \in {128, 191}}
    \cup {Str(<<97, 239, 191, 191, 98>>), Str(<<244, 143, 191, 191>>),
          Str(<<240, 159, 152, 128, 34>>)}

\* byte sequences of up to two bytes
BytesInputs ==
    {Bytes(r) : r \in UNION {[1..n -> {0, 9, 10, 128, 255}] : n \in 0..2}}

\* sequences of 0 to 3 elements, opened without a hint and with the exact
\* length, and sequences of sequences
SeqInputs ==
    {SeqHinted(h, <<>>) : h \in {NoHint, 0}}
    \cup {SeqHinted(h, <<u8(1)>>) : h \in {NoHint, 1}}
    \cup {SeqHinted(h, <<u8(2), u8(1)>>) : h \in {NoHint, 2}}
    \cup {SeqHinted(h, <<Str(sb), u8(3), Str(sa)>>) : h \in {NoHint, 3}}
    \cup {SeqOf(<<SeqOf(<<>>), SeqHinted(NoHint, <<>>), SeqOf(<<u8(2), u8(1)>>)>>),
          Tuple(<<Str(sb), Str(sa)>>), TupleStruct(<<u8(2), u8(1)>>)}

\* sequences and streamed maps opened with a hint that is not their length
HintInputs ==
    {SeqHinted(0, <<u8(1)>>), SeqHinted(0, <<u8(2), u8(1)>>),
     SeqHinted(2, <<>>), SeqHinted(1, <<u8(2), u8(1)>>), SeqHinted(3, <<u8(1)>>)}
    \cup {SeqOf(<<MapHinted(h, <<>>)>>) : h \in {NoHint, 0, 1}}
    \cup {SeqOf(<<MapHinted(h, <<Entry(Str(sa), u8(1))>>)>>) : h \in {NoHint, 0, 1, 2}}
    \cup {SeqOf(<<MapHinted(h, <<Entry(Str(sb), u8(2)), Entry(Str(sa), u8(1))>>)>>) :
              h \in {NoHint, 0, 1, 2}}

\* values written by collect_str, at the root, in a sequence and as the key
\* and the value of a root map and of a streamed map
Displays ==
    {Display(fails, chunks) :
        fails \in BOOLEAN, chunks \in {<<>>, <<sa>>, <<sa, <<34>>, sb>>}}
DisplayInputs ==
    Displays
    \cup {SeqOf(<<d>>) : d \in Displays}
    \cup {MapOf(<<Entry(d, d)>>) : d \in Displays}
    \cup {SeqOf(<<MapOf(<<Entry(d, u8(1))>>)>>) : d \in Displays}

\* maps that present a key twice, with different values and with the same
DuplicateKeyMaps ==
    {MapOf(<<Entry(Str(sa), u8(1)), Entry(Str(sa), u8(2))>>),
     MapOf(<<Entry(Str(sa), u8(2)), Entry(Str(sa), u8(1))>>),
     MapOf(<<Entry(Str(sa), u8(1)), Entry(Str(sa), u8(1))>>),
     MapOf(<<Entry(Str(sb), u8(1)), Entry(Str(sa), u8(1)), Entry(Str(sb), u8(1))>>)}

\* maps with a rejected key after, and before, an accepted one
MixedKeyMaps ==
    {MapOf(<<Entry(Str(sa), u8(1)), Entry(Bool(TRUE), u8(2))>>),
     MapOf(<<Entry(Unit, u8(1)), Entry(Str(sa), u8(2))>>),
     MapOf(<<Entry(Str(sb), Str(sa)), Entry(Str(sa), u8(1)), Entry(SeqOf(<<>>), u8(2))>>)}

\* a string of SizeLimit bytes next to a float or a rejected key, before
\* it and after it
LongInvalidInputs ==
    {Struct(es) : es \in Orders(<<Entry(Str(sx), Str(Run(SizeLimit))),
                                   Entry(Str(sy), Float("f64", Finite, s101))>>)}
    \cup {MapOf(es) : es \in Orders(<<Entry(Str(sa), Str(Run(SizeLimit))),
                                       Entry(Bool(TRUE), u8(1))>>)}
    \cup {SeqOf(es) : es \in Orders(<<Str(Run(SizeLimit)),
                                       MapOf(<<Entry(Bool(TRUE), u8(1))>>)>>)}
    \cup {SeqOf(es) : es \in Orders(<<Str(Run(SizeLimit)), Float("f32", Nan, <<>>)>>)}

Inputs ==
    LongInvalidInputs \cup MixedKeyMaps \cup DuplicateKeyMaps \cup SeqInputs \cup BytesInputs \cup StringInputs \cup ScalarInputs \cup TwoKeyMaps \cup KeyShapeInputs \cup FloatInputs
    \cup GroupInputs \cup LongInputs \cup VariantInputs \cup HintInputs
    \cup DisplayInputs

\* the budgets of a sink
Budgets == {NoFail} \cup 0..MaxWrites

\* what a Serialize impl presents to an open keyed group, call by call
SessionKeys == {Str(sa), Str(sb), u8(1), Bool(TRUE)}
SessionValues == {u8(1), Float("f64", Finite, s101)}

\* ------------------------------------------------------------------- state

\* no value: the input of a call made callback by callback, the pending key
\* of a group between a serialize_key and its serialize_value
Nil == Val("nil", 0, <<>>, <<>>)
Pending == [kind |-> "Pending", msg |-> ""]

VARIABLES
    phase,      \* "idle", "map" (a root MapKeySorted is open), "done"
    entry,      \* the entry point called: "string", "writer", "none"
    input,      \* the value passed to the entry point
    writer,     \* the sink (to_canonical_string: the Vec of to_canonical_vec)
    result,     \* Pending, Ok or the Error returned
    pairs,      \* the pairs of the open MapKeySorted
    pendingKey, \* the key passed to serialize_key, until serialize_value
    presented   \* the members presented to the open MapKeySorted so far

vars == <<phase, entry, input, writer, result, pairs, pendingKey, presented>>

Init ==
    /\ phase = "idle"
    /\ entry = "none"
    /\ input = Nil
    /\ writer = NewSink(NoFail)
    /\ result = Pending
    /\ pairs = <<>>
    /\ pendingKey = Nil
    /\ presented = <<>>

\* the call returns r: the sink as the call left it, and the Result
Returns(r) == writer' = r.w /\ result' = r.e

\* a call on the open MapKeySorted returns m, and the Serialize impl's `?`
\* returns an error from to_canonical_writer
Continues(m) ==
    /\ pairs' = m.pairs
    /\ IF IsOk(m)
       THEN UNCHANGED <<phase, result>>
       ELSE phase' = "done" /\ result' = m.e

\* to_canonical_string(&value) (lib.rs:41-50)
CallToCanonicalString ==
    /\ phase = "idle"
    /\ \E v \in Inputs : input' = v /\ Returns(to_canonical_string(v))
    /\ entry' = "string"
    /\ phase' = "done"
    /\ UNCHANGED <<pairs, pendingKey, presented>>

\* to_canonical_writer(sink, &value) (lib.rs:17-26)
CallToCanonicalWriter ==
    /\ phase = "idle"
    /\ \E v \in Inputs, b \in Budgets :
          input' = v /\ Returns(to_canonical_writer(NewSink(b), v))
    /\ entry' = "writer"
    /\ phase' = "done"
    /\ UNCHANGED <<pairs, pendingKey, presented>>

\* to_canonical_writer on a map whose Serialize impl is followed call by call:
\* serialize_map (lib.rs:263-269)
OpenMap ==
    /\ phase = "idle"
    /\ \E b \in Budgets : writer' = NewSink(b)
    /\ pairs' = CanonicalJson_serialize_map.pairs
    /\ entry' = "writer"
    /\ phase' = "map"
    /\ UNCHANGED <<input, result, pendingKey, presented>>

\* map.serialize_entry(&k, &v)?  (lib.rs:314-330): an error ends the call
SerializeEntry ==
    /\ phase = "map"
    /\ pendingKey = Nil
    /\ Len(presented) < MaxEntries
    /\ \E k \in SessionKeys, v \in SessionValues :
          /\ presented' = Append(presented, Entry(k, v))
          /\ Continues(MapKeySorted_serialize_entry(pairs, k, v))
    /\ UNCHANGED <<entry, input, writer, pendingKey>>

\* map.serialize_key(&k)?  (lib.rs:332-337)
SerializeKey ==
    /\ phase = "map"
    /\ pendingKey = Nil
    /\ Len(presented) < MaxEntries
    /\ \E k \in SessionKeys :
          /\ pendingKey' = k
          /\ Continues(MapKeySorted_serialize_key(pairs, k))
    /\ UNCHANGED <<entry, input, writer, presented>>

\* map.serialize_value(&v)?  (lib.rs:339-344)
SerializeValue ==
    /\ phase = "map"
    /\ pendingKey # Nil
    /\ \E v \in SessionValues :
          /\ presented' = Append(presented, Entry(pendingKey, v))
          /\ Continues(MapKeySorted_serialize_value(pairs, v))
    /\ pendingKey' = Nil
    /\ UNCHANGED <<entry, input, writer>>

\* map.end() (lib.rs:346-369): the pairs are drained
EndMap ==
    /\ phase = "map"
    /\ pendingKey = Nil
    /\ Returns(MapKeySorted_end(writer, pairs))
    /\ pairs' = <<>>
    /\ phase' = "done"
    /\ UNCHANGED <<entry, input, pendingKey, presented>>

Next ==
    \/ CallToCanonicalString
    \/ CallToCanonicalWriter
    \/ OpenMap
    \/ SerializeEntry
    \/ SerializeKey
    \/ SerializeValue
    \/ EndMap

Spec == Init /\ [][Next]_vars

\* ------------------------------------------------------------------ claims

\* what the call of the current state returned
Returned == [w |-> writer, e |-> result]
\* the Result and the String of a to_canonical_string call
Outcome(r) == [e |-> r.e, out |-> r.out]
\* the value's encoding into a sink that never fails
Encoded(v) == to_canonical_writer(NewSink(NoFail), v)
\* a to_canonical_string call has returned
StringDone == phase = "done" /\ entry = "string"
\* a to_canonical_writer call on a whole value has returned
WriterDone == phase = "done" /\ entry = "writer" /\ input # Nil

\* a and b are the same logical value: they differ at most in the order in
\* which keyed groups present their members
RECURSIVE SameMapping(_, _)
SameMapping(a, b) ==
    /\ a.t = b.t
    /\ a.n = b.n
    /\ a.s = b.s
    /\ Len(a.c) = Len(b.c)
    /\ IF a.t \in {"map", "struct", "struct_variant"}
       THEN \E p \in Permutations(1..Len(a.c)) :
               \A i \in 1..Len(a.c) : SameMapping(a.c[i], b.c[p[i]])
       ELSE \A i \in 1..Len(a.c) : SameMapping(a.c[i], b.c[i])

\* C1: to_canonical_string returns the same output for every order in which
\* the members of a keyed group, at the root or nested at any depth, are
\* presented: every input that is the same logical value as the one encoded
\* has the same outcome.
C1_PermutationInvariant ==
    StringDone =>
        \A v \in Inputs :
            SameMapping(input, v) =>
                Outcome(to_canonical_string(v)) = Outcome(StringOf(Returned))

\* the fragment "escaped-key":value a member is rendered to
Fragment(member) ==
    MapKeySorted_serialize_entry(<<>>, KeyOf(member), ValueOf(member)).pairs[1]
\* the members of a two-member group in the byte order of their string keys
ByKey(members) ==
    IF StrLess(KeyOf(members[1]).s, KeyOf(members[2]).s)
    THEN members
    ELSE <<members[2], members[1]>>

\* C2: sorting the rendered fragments of a keyed group with distinct string
\* keys gives the order of the keys themselves as raw byte strings: a root
\* map of two members is written with the member of the lesser key first.
C2_FragmentOrderIsKeyOrder ==
    (StringDone /\ input \in TwoKeyMaps) =>
        /\ result = Ok
        /\ writer.buf = <<123>> \o Fragment(ByKey(input.c)[1]) \o <<44>>
                        \o Fragment(ByKey(input.c)[2]) \o <<125>>

\* an f32 or f64 in a value position: the value itself, a map value, a struct
\* field, a sequence element or a variant payload
RECURSIVE ContainsFloat(_)
ContainsFloat(v) ==
    \/ v.t \in FloatShapes
    \/ IF v.t = "entry"
       THEN ContainsFloat(ValueOf(v))
       ELSE \E i \in 1..Len(v.c) : ContainsFloat(v.c[i])

\* C3: to_canonical_string fails with InvalidInput for every input that
\* holds a float anywhere in its structure.
C3_FloatIsInvalidInput ==
    (StringDone /\ ContainsFloat(input)) => result.kind = "InvalidInput"

\* C4: to_canonical_string returns SizeLimit for an otherwise valid input
\* whose encoding is longer than 65,535 bytes and Ok for one whose encoding
\* is exactly 65,535 bytes, so every Ok result is at most 65,535 bytes long.
C4_SizeLimit ==
    StringDone =>
        /\ result = Ok => Len(writer.buf) <= SizeLimit
        /\ (IsOk(Encoded(input)) /\ Len(Encoded(input).w.buf) > SizeLimit)
              => result = ErrorSizeLimit
        /\ (IsOk(Encoded(input)) /\ Len(Encoded(input).w.buf) = SizeLimit)
              => result = Ok
\* an output of exactly 65,535 bytes is returned
C4_Witness == StringDone /\ result = Ok /\ Len(writer.buf) = SizeLimit

\* C5: to_canonical_writer fails with the size-limit error when the encoded
\* output is longer than 65,535 bytes.
C5_WriterSizeLimit ==
    (WriterDone /\ Len(writer.buf) > SizeLimit) => result = ErrorSizeLimit

\* C6: whenever the sink rejects a write the call returns Error::IOError and
\* no other kind.
C6_WriteFailureIsIOError ==
    (phase = "done" /\ writer.failed) => result.kind = "IOError"

\* C7: once a write to the sink has failed the call returns an error at once:
\* no write to the sink follows the first failed one.
C7_NoWriteAfterFailure ==
    /\ writer.late = 0
    /\ writer.failed => (phase = "done" /\ result \notin {Ok, Pending})
\* a sink that took some writes and then rejected one
C7_Witness == phase = "done" /\ writer.failed /\ Len(writer.buf) > 0

\* the key shapes the claim lists as rendered
RECURSIVE AcceptedKey(_)
AcceptedKey(key) ==
    \/ key.t \in {"str", "char", "unit_variant"} \cup IntShapes
    \/ key.t = "newtype_struct" /\ AcceptedKey(key.c[1])
\* the keyed group of an input that is one, or a sequence of one
GroupOf(v) == IF v.t = "seq" THEN v.c[1] ELSE v

\* C8: a key is rendered only when it is a string, a character, a unit
\* variant, an integer or a newtype struct of one of these; with a key of any
\* other shape the call fails with "key must be a string" and the group has
\* put nothing in the sink (which holds at most the `[` of the sequence
\* around the group).
C8_KeyShapes ==
    (phase = "done" /\ input \in KeyShapeInputs /\ ~writer.failed) =>
        IF AcceptedKey(KeyOf(GroupOf(input).c[1]))
        THEN result = Ok
        ELSE /\ result.msg = "key must be a string"
             /\ writer.buf \in {<<>>, <<91>>}

\* C9: the error of a key that is not a string is of kind InvalidInput.
C9_KeyErrorIsInvalidInput ==
    (phase = "done" /\ result.msg = "key must be a string")
        => result.kind = "InvalidInput"

\* C10: an integer key is rendered as its decimal digits in double quotes: a
\* map of the one entry (1, v) is written as {"1":v}.
C10_IntegerKeyQuoted ==
    (/\ phase = "done" /\ ~writer.failed
     /\ input.t = "map" /\ Len(input.c) = 1
     /\ KeyOf(input.c[1]).t \in IntShapes) =>
        /\ result = Ok
        /\ writer.buf = <<123, 34>> \o Decimal(KeyOf(input.c[1]).n) \o <<34, 58>>
                        \o Encoded(ValueOf(input.c[1])).w.buf \o <<125>>

\* C11: a newtype variant encodes to exactly the encoding of its payload: no
\* object around it, and no variant name (for a payload without floats).
C11_NewtypeVariantIsPayload ==
    (StringDone /\ input.t = "newtype_variant" /\ ~ContainsFloat(input)) =>
        Outcome(StringOf(Returned)) = Outcome(to_canonical_string(input.c[1]))

\* the byte strings of parts, joined by commas
RECURSIVE Join(_)
Join(parts) ==
    IF parts = <<>> THEN <<>>
    ELSE IF Len(parts) = 1 THEN parts[1]
    ELSE parts[1] \o <<44>> \o Join(Tail(parts))
\* a string without escaped bytes, in quotes
Quoted(s) == <<34>> \o s \o <<34>>
\* the encoding of a value below the root
Nested(v) == SerializeToSerializer(v, NewSink(NoFail)).w.buf
\* the encodings of the elements of a sequence
NestedAll(elems) == [i \in 1..Len(elems) |-> Nested(elems[i])]
\* the fragments of the members of a keyed group, in the order p
FragmentsIn(members, p) == [i \in 1..Len(members) |-> Fragment(members[p[i]])]

\* C12: a tuple variant V(e1..en) encodes as {"V":[e1,...,en]} and a struct
\* variant V{..} as {"V":{..members..}}: one outer member keyed by the
\* variant's name, every opening bracket closed once, for n = 0 as well.
C12_VariantShape ==
    (StringDone /\ result = Ok) =>
        /\ input.t = "tuple_variant" =>
              writer.buf = <<123>> \o Quoted(input.s) \o <<58, 91>>
                           \o Join(NestedAll(input.c)) \o <<93, 125>>
        /\ input.t = "struct_variant" =>
              \E p \in Permutations(1..Len(input.c)) :
                  writer.buf = <<123>> \o Quoted(input.s) \o <<58, 123>>
                               \o Join(FragmentsIn(input.c, p)) \o <<125, 125>>
\* a tuple variant without fields has been encoded
C12_Witness ==
    StringDone /\ result = Ok /\ input.t = "tuple_variant" /\ Len(input.c) = 0

\* the lower-case hexadecimal digits
Hex == <<48, 49, 50, 51, 52, 53, 54, 55, 56, 57, 97, 98, 99, 100, 101, 102>>
\* what one byte of a string becomes
EscapedByte(byte) ==
    CASE byte = 8 -> <<92, 98>>
      [] byte = 9 -> <<92, 116>>
      [] byte = 10 -> <<92, 110>>
      [] byte = 12 -> <<92, 102>>
      [] byte = 13 -> <<92, 114>>
      [] byte = 34 -> <<92, 34>>
      [] byte = 92 -> <<92, 92>>
      [] byte < 32 /\ byte \notin {8, 9, 10, 12, 13} ->
            <<92, 117, 48, 48, Hex[(byte \div 16) + 1], Hex[(byte % 16) + 1]>>
      [] OTHER -> <<byte>>
\* what the bytes of a string become, one after the other
RECURSIVE EscapedBytes(_)
EscapedBytes(s) ==
    IF s = <<>> THEN <<>> ELSE EscapedByte(Head(s)) \o EscapedBytes(Tail(s))
\* printable ASCII without quote and backslash
Printable(s) == \A i \in 1..Len(s) : s[i] \in (32..126) \ {34, 92}
\* the strings of the inputs that are not the long ones
IsShort(s) == Len(s) <= 2 * MaxRun

\* C13: a string is encoded byte by byte, once and in order: the control
\* bytes, the quote and the backslash by their escapes, every other byte
\* unchanged; a string of printable ASCII without quote and backslash
\* encodes to itself in quotes.
C13_Escaping ==
    (StringDone /\ input.t = "str") =>
        /\ IsShort(input.s) => writer.buf = Quoted(EscapedBytes(input.s))
        /\ Printable(input.s) => writer.buf = Quoted(input.s)
\* a string of plain and escaped bytes has been encoded
C13_Witness ==
    StringDone /\ result = Ok /\ input = Str(<<97, 34, 10, 1, 98, 92>>)

\* the decimal digits of a byte
ByteDecimal(b) ==
    IF b < 10 THEN <<48 + b>>
    ELSE IF b < 100 THEN <<48 + (b \div 10), 48 + (b % 10)>>
    ELSE <<48 + (b \div 100), 48 + ((b \div 10) % 10), 48 + (b % 10)>>

\* C14: a byte sequence of n bytes encodes as a JSON array of n unsigned
\* decimal integers, element i the value of byte i; the empty one as [].
C14_BytesAsArray ==
    (StringDone /\ input.t = "bytes") =>
        /\ result = Ok
        /\ writer.buf = <<91>> \o Join([i \in 1..Len(input.s) |-> ByteDecimal(input.s[i])])
                        \o <<93>>
\* a byte sequence of two bytes has been encoded
C14_Witness == StringDone /\ result = Ok /\ input = Bytes(<<10, 255>>)

\* C15: a sequence of n elements opened without a length hint or with the
\* exact one encodes as `[`, the encodings of its elements in input order
\* with n - 1 commas between them, and `]`.
C15_SequenceShape ==
    (/\ StringDone /\ result = Ok
     /\ input.t \in {"seq", "tuple", "tuple_struct"}
     /\ input.n \in {NoHint, Len(input.c)}) =>
        writer.buf = <<91>> \o Join(NestedAll(input.c)) \o <<93>>
\* a sequence of three elements opened without a hint has been encoded
C15_Witness ==
    StringDone /\ result = Ok /\ input.t = "seq" /\ input.n = NoHint /\ Len(input.c) = 3

\* a is at most b in byte order
RECURSIVE LexLeq(_, _)
LexLeq(a, b) ==
    \/ a = <<>>
    \/ /\ b # <<>>
       /\ \/ Head(a) < Head(b)
          \/ Head(a) = Head(b) /\ LexLeq(Tail(a), Tail(b))
\* the strings ascend in byte order
Ascending(strings) ==
    \A i \in 1..(Len(strings) - 1) : LexLeq(strings[i], strings[i + 1])

\* C17: for a root map or struct, end() writes `{`, every fragment collected
\* once (equal keys and equal fragments all kept) in ascending byte order of
\* the whole fragment with one comma between two of them, then `}`; {} when
\* there is none.
C17_SortedGroup ==
    (/\ phase = "done" /\ result = Ok /\ ~writer.failed
     /\ input.t \in {"map", "struct"}) =>
        \E p \in Permutations(1..Len(input.c)) :
            /\ Ascending(FragmentsIn(input.c, p))
            /\ writer.buf = <<123>> \o Join(FragmentsIn(input.c, p)) \o <<125>>
\* a map that presents the same entry twice has been encoded
C17_Witness ==
    /\ phase = "done" /\ result = Ok
    /\ input = MapOf(<<Entry(Str(sa), u8(1)), Entry(Str(sa), u8(1))>>)

\* a keyed group handled by MapKeySorted: a root map or struct, given whole
\* or call by call
RootGroup == input = Nil \/ input.t \in {"map", "struct"}

\* C18: while a keyed group handled by MapKeySorted is open the sink is left
\* as it was: opening it and its entries write nothing to it, also when an
\* entry ends the call with a key error, and the first byte the group writes
\* is the `{` of end().
C18_SinkUnchangedWhileOpen ==
    /\ phase = "map" => writer = NewSink(writer.budget)
    /\ (phase = "done" /\ entry = "writer" /\ RootGroup) =>
          /\ result = key_must_be_a_string => writer = NewSink(writer.budget)
          /\ writer.buf # <<>> => Head(writer.buf) = 123
\* entries have been collected and the group is still open
C18_Witness == phase = "map" /\ Len(pairs) >= 1 /\ writer = NewSink(writer.budget)

\* C19: an encode to a writer is all-or-nothing: when it returns an
\* invalid-input or key error, the sink (which rejected no write) has
\* received no bytes.
C19_AllOrNothing ==
    (WriterDone /\ ~writer.failed /\ result.kind \in {"InvalidInput", "Custom"}) =>
        writer.buf = <<>>

\* a string of at least SizeLimit bytes somewhere in the value
RECURSIVE HasLong(_)
HasLong(v) ==
    \/ v.t = "str" /\ Len(v.s) >= SizeLimit
    \/ \E i \in 1..Len(v.c) : HasLong(v.c[i])
\* a keyed group somewhere in the value has a key of a rejected shape
RECURSIVE HasRejectedKey(_)
HasRejectedKey(v) ==
    \/ v.t = "entry" /\ ~AcceptedKey(KeyOf(v))
    \/ \E i \in 1..Len(v.c) : HasRejectedKey(v.c[i])

\* C20: the size check comes after the whole encode: an input that would
\* encode to more than 65,535 bytes and holds a float or a rejected key at
\* any position gets the invalid-input or key error, never SizeLimit.
C20_InvalidBeforeSize ==
    (StringDone /\ HasLong(input) /\ (ContainsFloat(input) \/ HasRejectedKey(input))) =>
        (result.kind = "InvalidInput" \/ result = key_must_be_a_string)

\* ----------------------------------------------------- a JSON parser
\* serde_json::from_str::<Value>, the parser of the crate's tests: a result is
\* [ok, v, i], v the value read and i the index after it.  An object is a
\* map ordered by key in which the last of equal keys is kept.

Bad == [ok |-> FALSE, v |-> Nil, i |-> 0]
Good(v, i) == [ok |-> TRUE, v |-> v, i |-> i]
\* the byte at i, or 256 past the end
At(b, i) == IF i >= 1 /\ i <= Len(b) THEN b[i] ELSE 256
HasAt(b, i, lit) == i + Len(lit) - 1 <= Len(b) /\ SubSeq(b, i, i + Len(lit) - 1) = lit

RECURSIVE SkipWs(_, _)
SkipWs(b, i) == IF At(b, i) \in {32, 9, 10, 13} THEN SkipWs(b, i + 1) ELSE i

RECURSIVE DigitsEnd(_, _)
DigitsEnd(b, i) == IF At(b, i) \in 48..57 THEN DigitsEnd(b, i + 1) ELSE i

RECURSIVE NumberOf(_)
NumberOf(d) ==
    IF d = <<>> THEN 0
    ELSE NumberOf(SubSeq(d, 1, Len(d) - 1)) * 10 + (d[Len(d)] - 48)

\* the end of an exponent that starts at i, or i when there is none; 0 when
\* it is malformed
ExponentEnd(b, i) ==
    IF At(b, i) \notin {101, 69} THEN i
    ELSE LET d == IF At(b, i + 1) \in {43, 45} THEN i + 2 ELSE i + 1
         IN IF DigitsEnd(b, d) = d THEN 0 ELSE DigitsEnd(b, d)
\* the end of a fraction and exponent that start at i; 0 when malformed
FractionEnd(b, i) ==
    IF At(b, i) = 46
    THEN IF DigitsEnd(b, i + 1) = i + 1 THEN 0 ELSE ExponentEnd(b, DigitsEnd(b, i + 1))
    ELSE ExponentEnd(b, i)

\* a number: an integer is a u64 or, when negative, an i64; a number with a
\* fraction or an exponent, and -0, is an f64
ParseNumber(b, i) ==
    LET neg == At(b, i) = 45
        s == IF neg THEN i + 1 ELSE i
        e == IF At(b, s) = 48 THEN s + 1 ELSE DigitsEnd(b, s)
        n == NumberOf(SubSeq(b, s, e - 1))
        f == FractionEnd(b, e)
    IN IF e = s \/ f = 0 THEN Bad
       ELSE IF f > e \/ (neg /\ n = 0) THEN Good(Float("f64", Finite, SubSeq(b, i, f - 1)), f)
       ELSE Good(IF neg THEN IntV("i64", -n) ELSE IntV("u64", n), e)

HexVal(c) ==
    IF c \in 48..57 THEN c - 48
    ELSE IF c \in 97..102 THEN c - 87
    ELSE IF c \in 65..70 THEN c - 55
    ELSE -1
\* the four hex digits at i as a number, or -1
Hex4(b, i) ==
    IF \E k \in 0..3 : HexVal(At(b, i + k)) < 0 THEN -1
    ELSE HexVal(At(b, i)) * 4096 + HexVal(At(b, i + 1)) * 256
         + HexVal(At(b, i + 2)) * 16 + HexVal(At(b, i + 3))
Utf8(cp) ==
    IF cp < 128 THEN <<cp>>
    ELSE IF cp < 2048 THEN <<192 + (cp \div 64), 128 + (cp % 64)>>
    ELSE IF cp < 65536
    THEN <<224 + (cp \div 4096), 128 + ((cp \div 64) % 64), 128 + (cp % 64)>>
    ELSE <<240 + (cp \div 262144), 128 + ((cp \div 4096) % 64),
           128 + ((cp \div 64) % 64), 128 + (cp % 64)>>

RECURSIVE ParseChars(_, _, _)
\* a \u escape whose hex digits start at i: a code point, or a pair of
\* surrogates
ParseUnicode(b, i, acc) ==
    LET hi == Hex4(b, i)
        lo == IF HasAt(b, i + 4, <<92, 117>>) THEN Hex4(b, i + 6) ELSE -1
    IN IF hi < 0 \/ hi \in 56320..57343 THEN Bad
       ELSE IF hi \in 55296..56319
       THEN IF lo \in 56320..57343
            THEN ParseChars(b, i + 10,
                            acc \o Utf8(65536 + (hi - 55296) * 1024 + (lo - 56320)))
            ELSE Bad
       ELSE ParseChars(b, i + 4, acc \o Utf8(hi))
\* the escape whose letter is at i
ParseEscape(b, i, acc) ==
    LET c == At(b, i)
    IN CASE c \in {34, 92, 47} -> ParseChars(b, i + 1, Append(acc, c))
         [] c = 98 -> ParseChars(b, i + 1, Append(acc, 8))
         [] c = 102 -> ParseChars(b, i + 1, Append(acc, 12))
         [] c = 110 -> ParseChars(b, i + 1, Append(acc, 10))
         [] c = 114 -> ParseChars(b, i + 1, Append(acc, 13))
         [] c = 116 -> ParseChars(b, i + 1, Append(acc, 9))
         [] c = 117 -> ParseUnicode(b, i + 1, acc)
         [] OTHER -> Bad
\* the rest of a string from i, after the bytes acc
ParseChars(b, i, acc) ==
    LET c == At(b, i)
    IN IF c = 34 THEN Good(Str(acc), i + 1)
       ELSE IF c < 32 \/ c = 256 THEN Bad
       ELSE IF c = 92 THEN ParseEscape(b, i + 1, acc)
       ELSE ParseChars(b, i + 1, Append(acc, c))

\* BTreeMap::insert: the entry takes the place of one with its key, or its
\* place in the order of the keys
RECURSIVE Put(_, _)
Put(members, m) ==
    IF members = <<>> THEN <<m>>
    ELSE IF KeyOf(Head(members)).s = KeyOf(m).s THEN <<m>> \o Tail(members)
    ELSE IF LexLeq(KeyOf(m).s, KeyOf(Head(members)).s) THEN <<m>> \o members
    ELSE <<Head(members)>> \o Put(Tail(members), m)

RECURSIVE ParseValue(_, _)
RECURSIVE ParseElems(_, _, _)
RECURSIVE ParseMembers(_, _, _)
\* the elements of an array from i, after the elements acc
ParseElems(b, i, acc) ==
    LET r == ParseValue(b, i)
        j == SkipWs(b, r.i)
    IN IF ~r.ok THEN Bad
       ELSE IF At(b, j) = 44 THEN ParseElems(b, j + 1, Append(acc, r.v))
       ELSE IF At(b, j) = 93 THEN Good(SeqOf(Append(acc, r.v)), j + 1)
       ELSE Bad
\* the members of an object from i, after the members acc
ParseMembers(b, i, acc) ==
    LET q == SkipWs(b, i)
        k == ParseChars(b, q + 1, <<>>)
        c == SkipWs(b, k.i)
        r == ParseValue(b, c + 1)
        j == SkipWs(b, r.i)
    IN IF At(b, q) # 34 THEN Bad
       ELSE IF ~k.ok \/ At(b, c) # 58 THEN Bad
       ELSE IF ~r.ok THEN Bad
       ELSE IF At(b, j) = 44 THEN ParseMembers(b, j + 1, Put(acc, Entry(k.v, r.v)))
       ELSE IF At(b, j) = 125 THEN Good(MapOf(Put(acc, Entry(k.v, r.v))), j + 1)
       ELSE Bad
\* the value that starts at or after i
ParseValue(b, i0) ==
    LET i == SkipWs(b, i0)
        c == At(b, i)
    IN CASE c = 110 /\ HasAt(b, i, <<110, 117, 108, 108>>) -> Good(Unit, i + 4)
         [] c = 116 /\ HasAt(b, i, <<116, 114, 117, 101>>) -> Good(Bool(TRUE), i + 4)
         [] c = 102 /\ HasAt(b, i, <<102, 97, 108, 115, 101>>) -> Good(Bool(FALSE), i + 5)
         [] c = 34 -> ParseChars(b, i + 1, <<>>)
         [] c = 91 -> IF At(b, SkipWs(b, i + 1)) = 93
                      THEN Good(SeqOf(<<>>), SkipWs(b, i + 1) + 1)
                      ELSE ParseElems(b, i + 1, <<>>)
         [] c = 123 -> IF At(b, SkipWs(b, i + 1)) = 125
                       THEN Good(MapOf(<<>>), SkipWs(b, i + 1) + 1)
                       ELSE ParseMembers(b, i + 1, <<>>)
         [] c = 45 \/ c \in 48..57 -> ParseNumber(b, i)
         [] OTHER -> Bad
\* a whole text
Parse(b) ==
    LET r == ParseValue(b, 1)
    IN IF r.ok /\ SkipWs(b, r.i) = Len(b) + 1 THEN r ELSE Bad

\* C16: re-encoding is idempotent: the output of a float-free input that
\* encodes successfully parses as JSON, and to_canonical_string of the parsed
\* value returns the same bytes.
C16_Idempotent ==
    (/\ StringDone /\ result = Ok /\ ~ContainsFloat(input)
     /\ Len(writer.buf) <= MaxText) =>
        /\ Parse(writer.buf).ok
        /\ Outcome(to_canonical_string(Parse(writer.buf).v)) = Outcome(StringOf(Returned))

\* C21: every member presented to a keyed group handled by MapKeySorted is in
\* the output exactly once, by serialize_entry or by serialize_key followed
\* by serialize_value: when the callbacks and end() return Ok, the group
\* written is made of the fragments of all the members presented.
C21_EveryMemberWritten ==
    (/\ phase = "done" /\ input = Nil /\ result = Ok /\ ~writer.failed
     /\ \A i \in 1..Len(presented) : AcceptedKey(KeyOf(presented[i]))) =>
        \E p \in Permutations(1..Len(presented)) :
            writer.buf = <<123>> \o Join(FragmentsIn(presented, p)) \o <<125>>

\* the fragments of the members of a streamed keyed group, as presented
Members(entries) == FragmentsIn(entries, [i \in 1..Len(entries) |-> i])

\* C22: a sequence or streamed keyed group opened with any length hint (none,
\* 0 or n), given k elements and ended, is written as one opening delimiter,
\* the k elements with max(k - 1, 0) commas between them, and one closing
\* delimiter, which is the last byte: a hint of 0 followed by elements does
\* not give `[]` followed by further bytes.
C22_DelimitersWellFormed ==
    (StringDone /\ result = Ok /\ input.t = "seq") =>
        /\ writer.buf = <<91>> \o Join(NestedAll(input.c)) \o <<93>>
        /\ (Len(input.c) = 1 /\ input.c[1].t = "map") =>
              writer.buf = <<91, 123>> \o Join(Members(input.c[1].c)) \o <<125, 93>>

\* the eight codes from_escape_table handles
EscapeCodes == {BB, TT, NN, FF, RR, QU, BS, UU}
\* the slices <<start, i>> (the bytes from start to i - 1) the loop of
\* format_escaped_str_contents takes of a string, from index start on
RECURSIVE SlicesFrom(_, _)
SlicesFrom(value, start) ==
    LET i == NextEscape(value, start)
    IN IF i > Len(value)
       THEN IF start # Len(value) + 1 THEN {<<start, Len(value) + 1>>} ELSE {}
       ELSE (IF start < i THEN {<<start, i>>} ELSE {}) \cup SlicesFrom(value, i + 1)
\* an input written through format_escaped_str
EscapedInput == input # Nil /\ input.t \in {"str", "char", "unit_variant"}

\* C23: escaping a string never panics: every entry of the ESCAPE table is 0
\* or one of the eight codes from_escape_table handles, so its unreachable
\* arm is never taken; only bytes below 0x80 are escaped; and every slice of
\* the string is taken between indices in order, within the string and on
\* character boundaries.
C23_EscapingNeverPanics ==
    /\ \A byte \in 0..255 :
          /\ ESCAPE[byte] \in EscapeCodes \cup {NoEscape}
          /\ ESCAPE[byte] # NoEscape =>
                /\ byte < 128
                /\ from_escape_table(ESCAPE[byte], byte) # Unreachable
    /\ (phase = "done" /\ EscapedInput) =>
          /\ result.kind # "Panic"
          /\ \A sl \in SlicesFrom(input.s, 1) :
                /\ 1 <= sl[1] /\ sl[1] <= sl[2] /\ sl[2] <= Len(input.s) + 1
                /\ is_char_boundary(input.s, sl[1])
                /\ is_char_boundary(input.s, sl[2])
\* a string of a four-byte character followed by an escaped byte has been
\* encoded: the slice before the escape ends after the character
C23_Witness ==
    /\ StringDone /\ result = Ok /\ input = Str(<<240, 159, 152, 128, 34>>)
    /\ SlicesFrom(input.s, 1) = {<<1, 5>>}

\* the value holds a Display somewhere
RECURSIVE HasDisplay(_)
HasDisplay(v) == v.t = "display" \/ \E i \in 1..Len(v.c) : HasDisplay(v.c[i])

\* C24: collect_str never panics: for every Display, also one whose fmt
\* returns an error although every write to the adapter succeeded, the call
\* returns Ok or an error.
C24_CollectStrNeverPanics ==
    (phase = "done" /\ input # Nil /\ HasDisplay(input)) => result.kind # "Panic"

====
